---------------------------- MODULE Spec2Model ----------------------------
(***************************************************************************)
(* SimpleGameEngine (src/unnamed/part_000): object registry, per-frame     *)
(* update, AABB collision detection and resolution, event system.          *)
(*                                                                         *)
(* Numbers.  The engine computes in floating point; the model computes in  *)
(* exact fixed point.  Positions and sizes (x, y, width, height) are held  *)
(* in units of 1/Scale pixel, velocities in pixels per second, times in    *)
(* milliseconds, all integers.  With that choice                           *)
(*     obj.x += obj.velocityX * (deltaTime / 1000)                         *)
(* is  x' = x + velocityX * deltaTime  exactly, and the one-pixel offsets  *)
(* of isOnGround are Scale units.  Rounding of IEEE doubles is not         *)
(* modelled.                                                               *)
(*                                                                         *)
(* The DOM (element lookup and creation, style writes) is not modelled:    *)
(* it is written and never read back by the engine, except for the         *)
(* offsetWidth/offsetHeight defaults, which the model avoids by always     *)
(* passing a positive width and height.                                    *)
(*                                                                         *)
(* Callbacks are opaque user code.  A callback is modelled by its name and *)
(* by whether it returns normally or throws; it does not touch the engine. *)
(***************************************************************************)
EXTENDS Integers, Sequences, FiniteSets, TLC

VARIABLES
    gameObjects,     \* this.gameObjects: the registry, in creation order
    eventListeners,  \* this.eventListeners: event name -> sequence of callbacks
    lastTime,        \* this.lastTime
    running,         \* a requestAnimationFrame(gameLoop) request is pending
    timers,          \* pending setTimeout callbacks of createGameObject
    now,             \* the browser's clock, in ms
    subscribed,      \* history: the on() calls, <<event, callback>>, in order
    created,         \* history: each object as createGameObject returned it
    timerSetAt,      \* history: per object, when its setTimeout was called
    fired,           \* history: per object, number of emit('playerCreated', obj)
    trace,           \* history: what the last handler did (emits, callback calls)
    threw,           \* history: the last handler ended by an uncaught exception
    ticks            \* history: the timestamp the driver passed to the last
                     \* frame, and the sum of the deltaTimes update was
                     \* called with

vars == <<gameObjects, eventListeners, lastTime, running, timers, now,
          subscribed, created, timerSetAt, fired, trace, threw, ticks>>

---------------------------------------------------------------------------
(* Program constants *)

\* deltaTime / 1000 in update: velocities are per second, times in ms
Scale == 1000
\* 500 * (deltaTime / 500) in update
GravityAccel == 500
GravityTimeScale == 500
\* setTimeout(..., 1000) in createGameObject
PlayerCreatedDelay == 1000

(* Bounds of the model *)

\* at most this many createGameObject calls
MaxObjects == 2
\* at most this many on() calls
MaxListeners == 1
\* the clock advances at most this many times, by TimeStep ms each
MaxClockSteps == 2
TimeStep == 500
\* coordinates of the pair specification range over 0..MaxCoord
MaxCoord == 2

---------------------------------------------------------------------------
(* Values *)

Min(a, b) == IF a < b THEN a ELSE b
Max(a, b) == IF a > b THEN a ELSE b

\* options.onCollision || null
NoCallback == "null"
\* options.autoMove || null; a set autoMove is the pair <<x, y>>
NoAutoMove == << >>

EventNames == {"playerCreated", "hitBoundary", "collision"}
\* user callbacks handed to on(); "boom" throws when called, the others return
Callbacks == {"f1", "f2", "boom"}
Throws(callback) == callback = "boom"

\* no setTimeout call was made for the object
NoTimer == -1

\* no frame has run yet
NoTicks == [stamp |-> 0, elapsed |-> 0]

NoData == [overlapX |-> 0, overlapY |-> 0, direction |-> "none"]

\* One entry of the trace.  kind "emit": emit(event, payload) was entered;
\* kind "call": a listener of event was called with the payload; kind
\* "onCollision": obj1.onCollision(obj2, data) was called.  The payload is
\* the object with registry index obj1 (obj2 = 0), or for "collision" the
\* record {obj1, obj2, ...data}.  data is the Payload defined with emit.
Entry(kind, event, cb, i, j, data) ==
    [kind |-> kind, event |-> event, cb |-> cb, obj1 |-> i, obj2 |-> j,
     data |-> data]

---------------------------------------------------------------------------
(* Geometry *)

\* AABB test, four strict comparisons
isColliding_NonStrict(obj1, obj2) ==
    /\ obj1.x <= obj2.x + obj2.width
    /\ obj1.x + obj1.width >= obj2.x
    /\ obj1.y <= obj2.y + obj2.height
    /\ obj1.y + obj1.height >= obj2.y

isColliding_LeftInclusive(obj1, obj2) ==
    /\ obj1.x <= obj2.x + obj2.width
    /\ obj1.x + obj1.width > obj2.x
    /\ obj1.y < obj2.y + obj2.height
    /\ obj1.y + obj1.height > obj2.y

isColliding(obj1, obj2) ==
    /\ obj1.x < obj2.x + obj2.width
    /\ obj1.x + obj1.width > obj2.x
    /\ obj1.y < obj2.y + obj2.height
    /\ obj1.y + obj1.height > obj2.y

getCollisionData_TieIsHorizontal(obj1, obj2) ==
    LET overlapX == Min(obj1.x + obj1.width - obj2.x,
                        obj2.x + obj2.width - obj1.x)
        overlapY == Min(obj1.y + obj1.height - obj2.y,
                        obj2.y + obj2.height - obj1.y)
        direction == IF overlapX <= overlapY
                     THEN (IF obj1.x < obj2.x THEN "left" ELSE "right")
                     ELSE (IF obj1.y < obj2.y THEN "top" ELSE "bottom")
    IN  [overlapX |-> overlapX, overlapY |-> overlapY, direction |-> direction]

getCollisionData(obj1, obj2) ==
    LET overlapX == Min(obj1.x + obj1.width - obj2.x,
                        obj2.x + obj2.width - obj1.x)
        overlapY == Min(obj1.y + obj1.height - obj2.y,
                        obj2.y + obj2.height - obj1.y)
        direction == IF overlapX < overlapY
                     THEN (IF obj1.x < obj2.x THEN "left" ELSE "right")
                     ELSE (IF obj1.y < obj2.y THEN "top" ELSE "bottom")
    IN  [overlapX |-> overlapX, overlapY |-> overlapY, direction |-> direction]

\* resolveCollision mutates obj1 and obj2 in place; the operator returns the
\* pair <<obj1, obj2>> after the call.
resolveCollision_KeepsVelocity(obj1, obj2, data) ==
    IF obj1.isStatic /\ obj2.isStatic THEN <<obj1, obj2>>
    ELSE
    LET dx == IF data.direction = "left" THEN data.overlapX
              ELSE IF data.direction = "right" THEN -data.overlapX ELSE 0
        dy == IF data.direction = "top" THEN data.overlapY
              ELSE IF data.direction = "bottom" THEN -data.overlapY ELSE 0
        moved1 == IF obj1.isStatic THEN obj1
                  ELSE [obj1 EXCEPT !.x = @ - dx, !.y = @ - dy]
        moved2 == IF obj2.isStatic THEN obj2
                  ELSE [obj2 EXCEPT !.x = @ + dx, !.y = @ + dy]
    IN  <<moved1, moved2>>

resolveCollision_MovesObj2Always(obj1, obj2, data) ==
    LET dx == IF data.direction = "left" THEN data.overlapX
              ELSE IF data.direction = "right" THEN -data.overlapX ELSE 0
        dy == IF data.direction = "top" THEN data.overlapY
              ELSE IF data.direction = "bottom" THEN -data.overlapY ELSE 0
        horizontal == data.direction \in {"left", "right"}
        moved1 == IF obj1.isStatic THEN obj1
                  ELSE [obj1 EXCEPT !.x = @ - dx, !.y = @ - dy]
        moved2 == [obj2 EXCEPT !.x = @ + dx, !.y = @ + dy]
        stopped1 == IF obj1.isStatic THEN moved1
                    ELSE IF horizontal THEN [moved1 EXCEPT !.velocityX = 0]
                    ELSE [moved1 EXCEPT !.velocityY = 0]
        stopped2 == IF horizontal THEN [moved2 EXCEPT !.velocityX = 0]
                    ELSE [moved2 EXCEPT !.velocityY = 0]
    IN  <<stopped1, stopped2>>

resolveCollision(obj1, obj2, data) ==
    IF obj1.isStatic /\ obj2.isStatic THEN <<obj1, obj2>>
    ELSE
    LET dx == IF data.direction = "left" THEN data.overlapX
              ELSE IF data.direction = "right" THEN -data.overlapX ELSE 0
        dy == IF data.direction = "top" THEN data.overlapY
              ELSE IF data.direction = "bottom" THEN -data.overlapY ELSE 0
        horizontal == data.direction \in {"left", "right"}
        moved1 == IF obj1.isStatic THEN obj1
                  ELSE [obj1 EXCEPT !.x = @ - dx, !.y = @ - dy]
        moved2 == IF obj2.isStatic THEN obj2
                  ELSE [obj2 EXCEPT !.x = @ + dx, !.y = @ + dy]
        stopped1 == IF obj1.isStatic THEN moved1
                    ELSE IF horizontal THEN [moved1 EXCEPT !.velocityX = 0]
                    ELSE [moved1 EXCEPT !.velocityY = 0]
        stopped2 == IF obj2.isStatic THEN moved2
                    ELSE IF horizontal THEN [moved2 EXCEPT !.velocityX = 0]
                    ELSE [moved2 EXCEPT !.velocityY = 0]
    IN  <<stopped1, stopped2>>

\* other.isPlatform: no code of the engine sets it, so it reads undefined
isPlatform(other) == FALSE

isOnGround_SkipsStatic(objs, i) ==
    LET obj == objs[i]
        feet == [x |-> obj.x, y |-> obj.y + obj.height + 1 * Scale,
                 width |-> obj.width, height |-> 1 * Scale]
    IN  \E k \in 1..Len(objs) :
            /\ k # i
            /\ ~objs[k].isStatic
            /\ isColliding(feet, objs[k])

isOnGround(objs, i) ==
    LET obj == objs[i]
        feet == [x |-> obj.x, y |-> obj.y + obj.height + 1 * Scale,
                 width |-> obj.width, height |-> 1 * Scale]
    IN  \E k \in 1..Len(objs) :
            /\ k # i
            /\ ~isPlatform(objs[k])
            /\ isColliding(feet, objs[k])

---------------------------------------------------------------------------
(* The run of one handler.  A handler works on m = [objs, trace, threw]:   *)
(* the registry as it stands, what was emitted and called so far, and      *)
(* whether an exception is propagating.  Once m.threw holds, every         *)
(* remaining step of the handler is skipped: the engine has no try/catch.  *)

Start(objs) == [objs |-> objs, trace |-> << >>, threw |-> FALSE]

RECURSIVE callListeners_CallsAll(_, _, _, _, _, _, _)
callListeners_CallsAll(m, listeners, k, event, i, j, data) ==
    IF k > Len(listeners) THEN m
    ELSE callListeners_CallsAll(
             [m EXCEPT !.trace = Append(@, Entry("call", event, listeners[k],
                                                 i, j, data)),
                       !.threw = @ \/ Throws(listeners[k])],
             listeners, k + 1, event, i, j, data)

\* listeners.forEach(callback => callback(data)), from the k-th listener on
RECURSIVE callListeners(_, _, _, _, _, _, _)
callListeners(m, listeners, k, event, i, j, data) ==
    IF k > Len(listeners) \/ m.threw THEN m
    ELSE callListeners(
             [m EXCEPT !.trace = Append(@, Entry("call", event, listeners[k],
                                                 i, j, data)),
                       !.threw = Throws(listeners[k])],
             listeners, k + 1, event, i, j, data)

\* this.eventListeners[event], undefined when on() was never called for it
Listeners(event) ==
    IF event \in DOMAIN eventListeners THEN eventListeners[event] ELSE << >>

\* What a callee can read of an object handed to it: the object is passed
\* by reference, so its fields are those of the moment of the call.
Seen(obj) ==
    [x |-> obj.x, y |-> obj.y,
     velocityX |-> obj.velocityX, velocityY |-> obj.velocityY]

\* The arguments of a callback as the callee sees them: the collision data
\* (NoData for the other events) and, under "at", the object or the two
\* objects handed over, as they are at the call.
Payload(objs, i, j, data) ==
    [overlapX |-> data.overlapX, overlapY |-> data.overlapY,
     direction |-> data.direction,
     at |-> IF j = 0 THEN <<Seen(objs[i])>>
            ELSE <<Seen(objs[i]), Seen(objs[j])>>]

emit(m, event, i, j, data) ==
    LET payload == Payload(m.objs, i, j, data)
    IN  callListeners([m EXCEPT !.trace = Append(@, Entry("emit", event,
                                                          NoCallback, i, j,
                                                          payload))],
                      Listeners(event), 1, event, i, j, payload)

integrate_AutoMoveAdds(objs, i, deltaTime) ==
    LET obj == objs[i]
        auto == IF obj.autoMove # NoAutoMove
                THEN [obj EXCEPT !.velocityX = @ + obj.autoMove[1],
                                 !.velocityY = @ + obj.autoMove[2]]
                ELSE obj
        fall == IF auto.requireGround /\ ~isOnGround(objs, i)
                THEN [auto EXCEPT !.velocityY =
                          @ + (GravityAccel * deltaTime) \div GravityTimeScale]
                ELSE auto
    IN  [fall EXCEPT !.x = @ + fall.velocityX * deltaTime,
                     !.y = @ + fall.velocityY * deltaTime]

integrate_FallsWhenGrounded(objs, i, deltaTime) ==
    LET obj == objs[i]
        auto == IF obj.autoMove # NoAutoMove
                THEN [obj EXCEPT !.velocityX = obj.autoMove[1],
                                 !.velocityY = obj.autoMove[2]]
                ELSE obj
        fall == IF auto.requireGround
                THEN [auto EXCEPT !.velocityY =
                          @ + (GravityAccel * deltaTime) \div GravityTimeScale]
                ELSE auto
    IN  [fall EXCEPT !.x = @ + fall.velocityX * deltaTime,
                     !.y = @ + fall.velocityY * deltaTime]

\* the body of update's forEach for a non-static object, up to the emit
integrate(objs, i, deltaTime) ==
    LET obj == objs[i]
        auto == IF obj.autoMove # NoAutoMove
                THEN [obj EXCEPT !.velocityX = obj.autoMove[1],
                                 !.velocityY = obj.autoMove[2]]
                ELSE obj
        fall == IF auto.requireGround /\ ~isOnGround(objs, i)
                THEN [auto EXCEPT !.velocityY =
                          @ + (GravityAccel * deltaTime) \div GravityTimeScale]
                ELSE auto
    IN  [fall EXCEPT !.x = @ + fall.velocityX * deltaTime,
                     !.y = @ + fall.velocityY * deltaTime]

updateObject_EmitsFirst(m, i, deltaTime) ==
    IF m.objs[i].isStatic THEN m
    ELSE LET m1 == emit(m, "hitBoundary", i, 0, NoData)
         IN  IF m1.threw THEN m1
             ELSE [m1 EXCEPT !.objs[i] = integrate(m.objs, i, deltaTime)]

updateObject(m, i, deltaTime) ==
    IF m.objs[i].isStatic THEN m
    ELSE emit([m EXCEPT !.objs[i] = integrate(m.objs, i, deltaTime)],
              "hitBoundary", i, 0, NoData)

RECURSIVE updateFrom(_, _, _)
updateFrom(m, i, deltaTime) ==
    IF i > Len(m.objs) \/ m.threw THEN m
    ELSE updateFrom(updateObject(m, i, deltaTime), i + 1, deltaTime)

update(m, deltaTime) == updateFrom(m, 1, deltaTime)

\* if (obj.onCollision) obj.onCollision(other, collisionData)
callOnCollision(m, self, other, data) ==
    IF m.threw \/ m.objs[self].onCollision = NoCallback THEN m
    ELSE [m EXCEPT !.trace = Append(@, Entry("onCollision", "collision",
                                             m.objs[self].onCollision,
                                             self, other,
                                             Payload(m.objs, self, other,
                                                     data))),
                   !.threw = Throws(m.objs[self].onCollision)]

collidePair_SkipsStaticPairs(m, i, j) ==
    IF ~isColliding(m.objs[i], m.objs[j]) THEN m
    ELSE IF m.objs[i].isStatic /\ m.objs[j].isStatic THEN m
    ELSE
    LET data == getCollisionData(m.objs[i], m.objs[j])
        res  == resolveCollision(m.objs[i], m.objs[j], data)
        m1   == [m EXCEPT !.objs[i] = res[1], !.objs[j] = res[2]]
        m2   == callOnCollision(m1, i, j, data)
        m3   == callOnCollision(m2, j, i, data)
    IN  IF m3.threw THEN m3 ELSE emit(m3, "collision", i, j, data)

collidePair_Unguarded(m, i, j) ==
    LET data == getCollisionData(m.objs[i], m.objs[j])
        res  == resolveCollision(m.objs[i], m.objs[j], data)
        m1   == [m EXCEPT !.objs[i] = res[1], !.objs[j] = res[2]]
        m2   == callOnCollision(m1, i, j, data)
        m3   == callOnCollision(m2, j, i, data)
    IN  IF m3.threw THEN m3 ELSE emit(m3, "collision", i, j, data)

collidePair_ResolvesLast(m, i, j) ==
    IF ~isColliding(m.objs[i], m.objs[j]) THEN m
    ELSE
    LET data == getCollisionData(m.objs[i], m.objs[j])
        res  == resolveCollision(m.objs[i], m.objs[j], data)
        m2   == callOnCollision(m, i, j, data)
        m3   == callOnCollision(m2, j, i, data)
        m4   == IF m3.threw THEN m3 ELSE emit(m3, "collision", i, j, data)
    IN  IF m4.threw THEN m4
        ELSE [m4 EXCEPT !.objs[i] = res[1], !.objs[j] = res[2]]

\* the body of checkCollisions' inner loop for the pair (i, j)
collidePair(m, i, j) ==
    IF ~isColliding(m.objs[i], m.objs[j]) THEN m
    ELSE
    LET data == getCollisionData(m.objs[i], m.objs[j])
        res  == resolveCollision(m.objs[i], m.objs[j], data)
        m1   == [m EXCEPT !.objs[i] = res[1], !.objs[j] = res[2]]
        m2   == callOnCollision(m1, i, j, data)
        m3   == callOnCollision(m2, j, i, data)
    IN  IF m3.threw THEN m3 ELSE emit(m3, "collision", i, j, data)

RECURSIVE checkFrom(_, _, _)
checkFrom(m, i, j) ==
    IF m.threw \/ i > Len(m.objs) THEN m
    ELSE IF j > Len(m.objs) THEN checkFrom(m, i + 1, i + 2)
    ELSE checkFrom(collidePair(m, i, j), i, j + 1)

checkCollisions_TwoPasses(m) == checkFrom(checkFrom(m, 1, 2), 1, 2)

checkCollisions(m) == checkFrom(m, 1, 2)

\* the history of emit('playerCreated', obj) calls, advanced by what a
\* handler did
Fired(m) ==
    [i \in DOMAIN fired |->
        fired[i] + Cardinality({k \in DOMAIN m.trace :
                                   /\ m.trace[k].kind = "emit"
                                   /\ m.trace[k].event = "playerCreated"
                                   /\ m.trace[k].obj1 = i})]

---------------------------------------------------------------------------
(* Operations *)

\* The object createGameObject builds from its arguments.  velocityX and
\* velocityY start at 0; every other field is the option or its default.
\* element and tag are left out: the engine never reads them back.
NewGameObject(elementId, options) ==
    [id                 |-> elementId,
     x                  |-> options.x,
     y                  |-> options.y,
     width              |-> options.width,
     height             |-> options.height,
     velocityX          |-> 0,
     velocityY          |-> 0,
     autoMove           |-> options.autoMove,
     isStatic           |-> options.isStatic,
     isPlayerControlled |-> options.isPlayerControlled,
     requireGround      |-> options.requireGround,
     onCollision        |-> options.onCollision]

createGameObject(elementId, options) ==
    LET gameObject == NewGameObject(elementId, options)
        index      == Len(gameObjects) + 1
    IN  /\ Len(gameObjects) < MaxObjects
        /\ gameObjects' = Append(gameObjects, gameObject)
        /\ timers' = IF gameObject.isPlayerControlled
                     THEN timers \cup {[obj |-> index,
                                        due |-> now + PlayerCreatedDelay]}
                     ELSE timers
        /\ created' = Append(created, gameObject)
        /\ timerSetAt' = Append(timerSetAt,
                                 IF gameObject.isPlayerControlled
                                 THEN now ELSE NoTimer)
        /\ fired' = Append(fired, 0)
        /\ trace' = << >>
        /\ threw' = FALSE
        /\ UNCHANGED <<eventListeners, subscribed, lastTime, running, now, ticks>>

playerCreatedTimeout_Repeats(timer) ==
    LET m == emit(Start(gameObjects), "playerCreated", timer.obj, 0, NoData)
    IN  /\ timer \in timers
        /\ now >= timer.due
        /\ fired[timer.obj] < 3
        /\ timers' = timers
        /\ fired' = Fired(m)
        /\ trace' = m.trace
        /\ threw' = m.threw
        /\ UNCHANGED <<gameObjects, eventListeners, subscribed, lastTime,
                       running, now, created, timerSetAt, ticks>>

\* the arrow function handed to setTimeout by createGameObject, run once
playerCreatedTimeout(timer) ==
    LET m == emit(Start(gameObjects), "playerCreated", timer.obj, 0, NoData)
    IN  /\ timer \in timers
        /\ now >= timer.due
        /\ timers' = timers \ {timer}
        /\ fired' = Fired(m)
        /\ trace' = m.trace
        /\ threw' = m.threw
        /\ UNCHANGED <<gameObjects, eventListeners, subscribed, lastTime,
                       running, now, created, timerSetAt, ticks>>

on_Prepends(event, callback) ==
    /\ eventListeners' =
           IF event \in DOMAIN eventListeners
           THEN [eventListeners EXCEPT ![event] = <<callback>> \o @]
           ELSE (event :> <<callback>>) @@ eventListeners
    /\ subscribed' = Append(subscribed, <<event, callback>>)
    /\ trace' = << >>
    /\ threw' = FALSE
    /\ UNCHANGED <<gameObjects, lastTime, running, timers, now, created,
                   timerSetAt, fired, ticks>>

\* this.eventListeners[event] is created on first use, then appended to
on(event, callback) ==
    /\ eventListeners' =
           IF event \in DOMAIN eventListeners
           THEN [eventListeners EXCEPT ![event] = Append(@, callback)]
           ELSE (event :> <<callback>>) @@ eventListeners
    /\ subscribed' = Append(subscribed, <<event, callback>>)
    /\ trace' = << >>
    /\ threw' = FALSE
    /\ UNCHANGED <<gameObjects, lastTime, running, timers, now, created,
                   timerSetAt, fired, ticks>>

gameLoop_KeepsLastTime(timestamp) ==
    LET deltaTime == timestamp - lastTime
        m1 == update(Start(gameObjects), deltaTime)
        m2 == IF m1.threw THEN m1 ELSE checkCollisions(m1)
    IN  /\ running
        /\ lastTime' = lastTime
        /\ gameObjects' = m2.objs
        /\ trace' = m2.trace
        /\ threw' = m2.threw
        /\ running' = ~m2.threw
        /\ fired' = Fired(m2)
        /\ ticks' = [stamp |-> timestamp, elapsed |-> ticks.elapsed + deltaTime]
        /\ UNCHANGED <<eventListeners, subscribed, timers, now, created,
                       timerSetAt>>

\* One frame: the gameLoop closure of start(), called by the browser with
\* the current time.  requestAnimationFrame(gameLoop) is its last statement,
\* reached only when update and checkCollisions returned.
gameLoop(timestamp) ==
    LET deltaTime == timestamp - lastTime
        m1 == update(Start(gameObjects), deltaTime)
        m2 == IF m1.threw THEN m1 ELSE checkCollisions(m1)
    IN  /\ running
        /\ lastTime' = timestamp
        /\ gameObjects' = m2.objs
        /\ trace' = m2.trace
        /\ threw' = m2.threw
        /\ running' = ~m2.threw
        /\ fired' = Fired(m2)
        /\ ticks' = [stamp |-> timestamp, elapsed |-> ticks.elapsed + deltaTime]
        /\ UNCHANGED <<eventListeners, subscribed, timers, now, created,
                       timerSetAt>>

Frame == gameLoop(now)

\* Time passes.  The clock is stopped after MaxClockSteps steps.
ClockAdvance ==
    /\ now < MaxClockSteps * TimeStep
    /\ now' = now + TimeStep
    /\ UNCHANGED <<gameObjects, eventListeners, subscribed, lastTime, running,
                   timers, created, timerSetAt, fired, trace, threw, ticks>>

\* Time passes until the clock is stopped, and in any case until every
\* pending timer is due.
ClockToDue ==
    /\ \/ now < MaxClockSteps * TimeStep
       \/ \E timer \in timers : now < timer.due
    /\ now' = now + TimeStep
    /\ UNCHANGED <<gameObjects, eventListeners, subscribed, lastTime, running,
                   timers, created, timerSetAt, fired, trace, threw, ticks>>

ListenerCount ==
    LET RECURSIVE Sum(_)
        Sum(S) == IF S = {} THEN 0
                  ELSE LET e == CHOOSE e \in S : TRUE
                       IN  Len(eventListeners[e]) + Sum(S \ {e})
    IN  Sum(DOMAIN eventListeners)

---------------------------------------------------------------------------
(* Specification of the engine: any interleaving of createGameObject, on,  *)
(* frames, timer expiries and the passing of time, with the arguments      *)
(* drawn from the menus below.  Objects are 50 x 50 pixels.                *)

Px(n) == n * Scale

Options(x, y, autoMove, isStatic, isPlayerControlled, requireGround, cb) ==
    [x |-> Px(x), y |-> Px(y), width |-> Px(50), height |-> Px(50),
     autoMove |-> autoMove, isStatic |-> isStatic,
     isPlayerControlled |-> isPlayerControlled,
     requireGround |-> requireGround, onCollision |-> cb]

\* the createGameObject calls of the application: <<elementId, options>>
CreateMenu ==
    { \* a wall, and a second one reaching into it
      <<"wall", Options(0, 0, NoAutoMove, TRUE, FALSE, FALSE, "f1")>>,
      <<"wall", Options(40, 0, NoAutoMove, TRUE, FALSE, FALSE, NoCallback)>>,
      \* a falling box whose collision callback throws
      <<"box", Options(40, 10, NoAutoMove, FALSE, FALSE, TRUE, "boom")>>,
      \* the player, moving left on its own
      <<"player", Options(80, 0, <<-60, 0>>, FALSE, TRUE, FALSE, NoCallback)>>,
      \* a plain movable box
      <<"box", Options(0, 0, NoAutoMove, FALSE, FALSE, FALSE, "f2")>> }

ListenerMenu ==
    { <<"hitBoundary", "boom">>, <<"collision", "f1">>,
      <<"playerCreated", "f2">> }

Init ==
    /\ gameObjects = << >>
    /\ eventListeners = << >>
    /\ subscribed = << >>
    /\ lastTime = 0
    /\ running = TRUE
    /\ timers = {}
    /\ now = 0
    /\ created = << >>
    /\ timerSetAt = << >>
    /\ fired = << >>
    /\ trace = << >>
    /\ threw = FALSE
    /\ ticks = NoTicks

Create == \E call \in CreateMenu : createGameObject(call[1], call[2])

Subscribe == \E l \in ListenerMenu :
                 /\ ListenerCount < MaxListeners
                 /\ on(l[1], l[2])

Timeout == \E timer \in timers : playerCreatedTimeout(timer)

Next == Create \/ Subscribe \/ Frame \/ Timeout \/ ClockAdvance

Spec == Init /\ [][Next]_vars

---------------------------------------------------------------------------
(* States the specifications below start from: the engine after the given  *)
(* on() calls and createGameObject calls, all made at time 0 before the    *)
(* first frame.                                                            *)

\* this.eventListeners after the on() calls <<event, callback>> of a sequence
RECURSIVE ListenersAfter(_)
ListenersAfter(calls) ==
    IF calls = << >> THEN << >>
    ELSE LET before == ListenersAfter(SubSeq(calls, 1, Len(calls) - 1))
             event == calls[Len(calls)][1]
             callback == calls[Len(calls)][2]
         IN  IF event \in DOMAIN before
             THEN [before EXCEPT ![event] = Append(@, callback)]
             ELSE (event :> <<callback>>) @@ before

SetUp(onCalls, createCalls) ==
    LET objs == [k \in DOMAIN createCalls |->
                    NewGameObject(createCalls[k][1], createCalls[k][2])]
    IN  /\ gameObjects = objs
        /\ eventListeners = ListenersAfter(onCalls)
        /\ subscribed = onCalls
        /\ lastTime = 0
        /\ running = TRUE
        /\ timers = {[obj |-> k, due |-> PlayerCreatedDelay] :
                        k \in {n \in DOMAIN objs : objs[n].isPlayerControlled}}
        /\ now = 0
        /\ created = objs
        /\ timerSetAt = [k \in DOMAIN objs |->
                            IF objs[k].isPlayerControlled THEN 0 ELSE NoTimer]
        /\ fired = [k \in DOMAIN objs |-> 0]
        /\ trace = << >>
        /\ threw = FALSE
        /\ ticks = NoTicks

---------------------------------------------------------------------------
(* Specification of the event system: a wall and a player reaching into    *)
(* it, so that frames emit hitBoundary and collision and the timer emits   *)
(* playerCreated; on() is called with every event name and callback.       *)

\* at most this many on() calls in the event system's specification
BusMaxListeners == 2

BusScene ==
    << <<"wall", Options(0, 0, NoAutoMove, TRUE, FALSE, FALSE, NoCallback)>>,
       <<"player", Options(40, 0, NoAutoMove, FALSE, TRUE, FALSE, NoCallback)>> >>

BusInit == SetUp(<< >>, BusScene)

BusSubscribe == \E event \in EventNames, callback \in Callbacks :
                    /\ ListenerCount < BusMaxListeners
                    /\ on(event, callback)

BusNext == BusSubscribe \/ Frame \/ Timeout \/ ClockAdvance

SpecBus == BusInit /\ [][BusNext]_vars

---------------------------------------------------------------------------
(* Specification of the playerCreated timer, with the scheduling the       *)
(* browser guarantees: time passes, and a timer that is due is run.        *)

TimerCreateMenu ==
    { <<"wall", Options(0, 0, NoAutoMove, TRUE, FALSE, FALSE, NoCallback)>>,
      <<"player", Options(40, 0, NoAutoMove, FALSE, TRUE, FALSE, NoCallback)>> }

\* the listeners in place: none; one that throws in every frame; two for
\* playerCreated, the first of which throws
TimerListenerSetups ==
    { << >>,
      << <<"hitBoundary", "boom">> >>,
      << <<"playerCreated", "boom">>, <<"playerCreated", "f1">> >> }

TimerInit == \E onCalls \in TimerListenerSetups : SetUp(onCalls, << >>)

TimerCreate == \E call \in TimerCreateMenu : createGameObject(call[1], call[2])

TimerNext == TimerCreate \/ Frame \/ Timeout \/ ClockToDue

SpecTimer ==
    TimerInit /\ [][TimerNext]_vars /\ WF_vars(Timeout) /\ WF_vars(ClockToDue)

---------------------------------------------------------------------------
(* Specification of one pair: two objects of every shape and placement of  *)
(* a small grid, as two createGameObject calls leave them, with the        *)
(* velocities the application gave them; then frames with deltaTime 0,     *)
(* so that update moves nothing and each frame is one collision pass.      *)

PairSizes == {1, 2, 3}
PairVelocities == {<<0, 0>>, <<7, -3>>}

PairObject(elementId, x, y, w, h, static, v, cb) ==
    [NewGameObject(elementId,
                   [x |-> x, y |-> y, width |-> w, height |-> h,
                    autoMove |-> NoAutoMove, isStatic |-> static,
                    isPlayerControlled |-> FALSE, requireGround |-> FALSE,
                    onCollision |-> cb])
     EXCEPT !.velocityX = v[1], !.velocityY = v[2]]

PairInit ==
    /\ \E x1, y1, x2, y2 \in 0..MaxCoord, w1, h1, w2, h2 \in PairSizes,
          s1, s2 \in BOOLEAN, v \in PairVelocities :
          /\ gameObjects = << PairObject("a", x1, y1, w1, h1, s1, v, "f1"),
                              PairObject("b", x2, y2, w2, h2, s2, v, "f2") >>
          /\ created = << PairObject("a", x1, y1, w1, h1, s1, <<0, 0>>, "f1"),
                          PairObject("b", x2, y2, w2, h2, s2, <<0, 0>>, "f2") >>
    /\ eventListeners = ("collision" :> <<"f1", "f2">>)
    /\ subscribed = << <<"collision", "f1">>, <<"collision", "f2">> >>
    /\ lastTime = 0
    /\ running = TRUE
    /\ timers = {}
    /\ now = 0
    /\ timerSetAt = <<NoTimer, NoTimer>>
    /\ fired = <<0, 0>>
    /\ trace = << >>
    /\ threw = FALSE
    /\ ticks = NoTicks

PairNext == Frame

SpecPair == PairInit /\ [][PairNext]_vars

---------------------------------------------------------------------------
(* Specification of falling and resting: a ground, a crate that needs      *)
(* ground and stands exactly on it, and a walker that needs ground and     *)
(* moves on its own; objects are created in any order, between frames.     *)
(* The engine starts empty, or with a box standing on a floor.             *)

FallMenu ==
    { <<"ground", Options(0, 60, NoAutoMove, TRUE, FALSE, FALSE, NoCallback)>>,
      <<"crate", Options(0, 10, NoAutoMove, FALSE, FALSE, TRUE, "f1")>>,
      <<"walker", Options(20, 10, <<30, -20>>, FALSE, FALSE, TRUE, NoCallback)>> }

\* the listeners in place: none; three for hitBoundary, the second of
\* which throws; two that return
FallListenerSetups ==
    { << >>,
      << <<"hitBoundary", "f1">>, <<"hitBoundary", "boom">>,
         <<"hitBoundary", "f2">> >>,
      << <<"hitBoundary", "f2">>, <<"collision", "f1">> >> }

\* the objects in place at time 0: none; a floor and a box that needs
\* ground, standing on the floor and reaching over its right end
FallScenes ==
    { << >>,
      << <<"floor", Options(0, 60, NoAutoMove, TRUE, FALSE, FALSE, "f1")>>,
         <<"rest", Options(10, 10, NoAutoMove, FALSE, FALSE, TRUE, "f2")>> >> }

FallInit == \E onCalls \in FallListenerSetups, scene \in FallScenes :
                SetUp(onCalls, scene)

FallCreate == \E call \in FallMenu : createGameObject(call[1], call[2])

FallNext == FallCreate \/ Frame \/ ClockAdvance

SpecFall == FallInit /\ [][FallNext]_vars

---------------------------------------------------------------------------
(* Specification of one row of three: three squares of side TripleSize,    *)
(* each static or not, placed along a line, the middle one possibly one    *)
(* unit lower, with the velocity the application gave them; then frames,   *)
(* each one collision pass over the three pairs, and the passing of time.  *)

\* the x coordinates range over 0..TripleCoord
TripleCoord == 3
TripleSize == 2

\* the listeners in place: two for collision that return; two for
\* collision, the first of which throws; three for hitBoundary, the
\* second of which throws
TripleListenerSetups ==
    { << <<"collision", "f1">>, <<"collision", "f2">> >>,
      << <<"collision", "boom">>, <<"collision", "f1">> >>,
      << <<"hitBoundary", "f1">>, <<"hitBoundary", "boom">>,
         <<"hitBoundary", "f2">> >> }

TripleObjects(x1, x2, x3, y2, s1, s2, s3, v) ==
    << PairObject("a", x1, 0, TripleSize, TripleSize, s1, v, "f1"),
       PairObject("b", x2, y2, TripleSize, TripleSize, s2, v, NoCallback),
       PairObject("c", x3, 0, TripleSize, TripleSize, s3, v, "f2") >>

TripleInit ==
    /\ \E x1, x2, x3 \in 0..TripleCoord, y2 \in 0..1, s1, s2, s3 \in BOOLEAN :
          /\ gameObjects = TripleObjects(x1, x2, x3, y2, s1, s2, s3, <<7, -3>>)
          /\ created = TripleObjects(x1, x2, x3, y2, s1, s2, s3, <<0, 0>>)
    /\ \E onCalls \in TripleListenerSetups :
          /\ eventListeners = ListenersAfter(onCalls)
          /\ subscribed = onCalls
    /\ lastTime = 0
    /\ running = TRUE
    /\ timers = {}
    /\ now = 0
    /\ timerSetAt = <<NoTimer, NoTimer, NoTimer>>
    /\ fired = <<0, 0, 0>>
    /\ trace = << >>
    /\ threw = FALSE
    /\ ticks = NoTicks

TripleNext == Frame \/ ClockAdvance

SpecTriple == TripleInit /\ [][TripleNext]_vars

---------------------------------------------------------------------------
(* Notions the claims are stated with, independent of the engine's code *)

\* length of the common part of the two horizontal (vertical) extents;
\* negative when they are apart, 0 when they only touch
CommonX(a, b) == Min(a.x + a.width, b.x + b.width) - Max(a.x, b.x)
CommonY(a, b) == Min(a.y + a.height, b.y + b.height) - Max(a.y, b.y)

\* the rectangles share a region of positive area
Intersect(a, b) == CommonX(a, b) > 0 /\ CommonY(a, b) > 0
\* the rectangles share an edge segment or a corner and nothing more
TouchOnly(a, b) ==
    /\ CommonX(a, b) >= 0
    /\ CommonY(a, b) >= 0
    /\ CommonX(a, b) = 0 \/ CommonY(a, b) = 0

\* positions in the trace of the entries of a kind for an event
Entries(kind, event) ==
    {k \in DOMAIN trace : trace[k].kind = kind /\ trace[k].event = event}

\* the pair (i, j) took part in the effects recorded in the trace
PairInTrace(i, j) ==
    \E k \in DOMAIN trace :
        /\ trace[k].event = "collision"
        /\ {trace[k].obj1, trace[k].obj2} = {i, j}

SamePlace(o, p) ==
    /\ o.x = p.x /\ o.y = p.y
    /\ o.velocityX = p.velocityX /\ o.velocityY = p.velocityY

---------------------------------------------------------------------------
(* C2 *)

\* C2 (as claimed): whenever a collision pass has resolved an intersecting
\* pair with at least one non-static object, the overlap recomputed on the
\* new positions along the axis of the reported direction is <= 0.
C2_NoResidualPenetration ==
    \A k \in Entries("emit", "collision") :
        LET a == gameObjects[trace[k].obj1]
            b == gameObjects[trace[k].obj2]
            after == getCollisionData(a, b)
        IN  ~(a.isStatic /\ b.isStatic) =>
                IF trace[k].data.direction \in {"left", "right"}
                THEN after.overlapX <= 0
                ELSE after.overlapY <= 0

---------------------------------------------------------------------------
(* C8 *)

\* C8: isColliding(a, b) holds exactly when the two rectangles share a region
\* of positive area (all four comparisons strict); for a pair that only
\* shares an edge or a corner it is false, and a collision pass moves
\* neither object, calls neither onCollision and emits no collision event
\* for the pair.
C8_TouchingIsNoCollision ==
    [][ \A i, j \in 1..Len(gameObjects) :
          LET a == gameObjects[i]
              b == gameObjects[j]
          IN  i < j =>
              /\ isColliding(a, b) <=> Intersect(a, b)
              /\ TouchOnly(a, b) =>
                    /\ ~isColliding(a, b)
                    /\ gameObjects'[i] = a
                    /\ gameObjects'[j] = b
                    /\ ~PairInTrace(i, j)' ]_vars

\* a frame ran over a pair that only touches, and left it alone
C8_Witness ==
    /\ Len(gameObjects) = 2
    /\ TouchOnly(gameObjects[1], gameObjects[2])
    /\ gameObjects[1].onCollision # NoCallback
    /\ Listeners("collision") # << >>
    /\ Entries("emit", "hitBoundary") # {}
    /\ ~PairInTrace(1, 2)
    /\ gameObjects[1].x = created[1].x /\ gameObjects[2].x = created[2].x
    /\ gameObjects[1].y = created[1].y /\ gameObjects[2].y = created[2].y

---------------------------------------------------------------------------
(* C9 *)

\* C9: for all registered rectangles A and B, isColliding(A, B) equals
\* isColliding(B, A).
C9_Symmetric ==
    \A i, j \in 1..Len(gameObjects) :
        isColliding(gameObjects[i], gameObjects[j])
            = isColliding(gameObjects[j], gameObjects[i])

\* two rectangles of different widths and heights, one reaching into the
\* other, colliding in both orders, which the last frame's pass detected
C9_Witness ==
    /\ Len(gameObjects) = 2
    /\ gameObjects[1].x < gameObjects[2].x
    /\ gameObjects[1].y > gameObjects[2].y
    /\ gameObjects[1].width # gameObjects[2].width
    /\ gameObjects[1].height # gameObjects[2].height
    /\ isColliding(gameObjects[1], gameObjects[2])
    /\ isColliding(gameObjects[2], gameObjects[1])
    /\ PairInTrace(1, 2)

---------------------------------------------------------------------------
(* C10 *)

\* the collision event of the pair (i, j) was emitted with this direction
Reported(i, j, direction) ==
    \E k \in Entries("emit", "collision") :
        /\ trace[k].obj1 = i /\ trace[k].obj2 = j
        /\ trace[k].data.direction = direction

\* C10: A static and created first, B non-static, A.x < B.x, B across A's
\* right side (B.x < A.x + A.width < B.x + B.width), horizontal overlap
\* smaller than the vertical one: the collision pass reports "left", puts
\* B.x at exactly A.x + A.width, zeroes B.velocityX, leaves B.y, B.velocityY
\* and A as they were.
C10_PushedToRightEdge ==
    [][ Len(gameObjects) = 2 =>
        LET A == gameObjects[1]
            B == gameObjects[2]
        IN  ( /\ A.isStatic /\ ~B.isStatic
              /\ A.x < B.x
              /\ B.x < A.x + A.width
              /\ A.x + A.width < B.x + B.width
              /\ CommonX(A, B) < CommonY(A, B) )
            =>
            ( /\ Reported(1, 2, "left")'
              /\ gameObjects'[2].x = A.x + A.width
              /\ gameObjects'[2].velocityX = 0
              /\ gameObjects'[2].y = B.y
              /\ gameObjects'[2].velocityY = B.velocityY
              /\ gameObjects'[1] = A ) ]_vars

\* B was moving, reached into A's right side, and now stands at A's right
\* edge with no horizontal velocity and its vertical velocity kept
C10_Witness ==
    /\ Len(gameObjects) = 2
    /\ gameObjects[1].isStatic /\ ~gameObjects[2].isStatic
    /\ Reported(1, 2, "left")
    /\ created[2].x < gameObjects[2].x
    /\ created[2].x > gameObjects[1].x
    /\ gameObjects[2].x = gameObjects[1].x + gameObjects[1].width
    /\ gameObjects[2].velocityX = 0
    /\ gameObjects[2].velocityY # 0
    /\ gameObjects[2].y = created[2].y

---------------------------------------------------------------------------
(* C1 *)

\* C1: after any sequence of createGameObject calls and frames, every
\* object created with isStatic = true has the x, y, velocityX and velocityY
\* it had at creation.
C1_StaticNeverWritten ==
    \A i \in 1..Len(gameObjects) :
        created[i].isStatic => SamePlace(gameObjects[i], created[i])

\* time has passed, and the last frame resolved a collision between a
\* static object and a non-static one created before it
C1_Witness ==
    /\ lastTime > 0
    /\ \E i, j \in 1..Len(gameObjects) :
          /\ i < j
          /\ ~gameObjects[i].isStatic
          /\ gameObjects[j].isStatic
          /\ PairInTrace(i, j)
          /\ ~SamePlace(gameObjects[i], created[i])

---------------------------------------------------------------------------
(* C3 *)

\* C3 (as claimed): a callback that throws during a frame costs only the
\* rest of that frame; the frame loop stays scheduled and runs the next
\* frame.
C3_LoopSurvivesThrow == threw => running

---------------------------------------------------------------------------
(* C4 *)

\* C4 (as claimed): no two objects of the registry have the same id.
C4_UniqueIds ==
    \A i, j \in 1..Len(gameObjects) :
        i # j => gameObjects[i].id # gameObjects[j].id

---------------------------------------------------------------------------
(* C7 *)

\* positions in a trace of the collision events emitted for the pair (i, j)
CollisionEmits(tr, i, j) ==
    {k \in DOMAIN tr : /\ tr[k].kind = "emit" /\ tr[k].event = "collision"
                       /\ tr[k].obj1 = i /\ tr[k].obj2 = j}

\* positions in a trace of the calls self.onCollision(other, ...)
OnCollisionCalls(tr, self, other) ==
    {k \in DOMAIN tr : /\ tr[k].kind = "onCollision"
                       /\ tr[k].obj1 = self /\ tr[k].obj2 = other}

---------------------------------------------------------------------------
(* C5 *)

\* how many of the listeners an emit calls: all of them, or those up to and
\* including the first that throws
Reach(listeners) ==
    IF \E n \in DOMAIN listeners : Throws(listeners[n])
    THEN CHOOSE n \in DOMAIN listeners :
             /\ Throws(listeners[n])
             /\ \A q \in 1..(n - 1) : ~Throws(listeners[q])
    ELSE Len(listeners)

\* the callbacks registered for an event, in the order of the on() calls
RECURSIVE Registered(_, _)
Registered(calls, event) ==
    IF calls = << >> THEN << >>
    ELSE (IF Head(calls)[1] = event THEN <<Head(calls)[2]>> ELSE << >>)
             \o Registered(Tail(calls), event)

---------------------------------------------------------------------------
(* C6 *)

\* C6: for an object created with isPlayerControlled = true, playerCreated
\* is emitted with that object as payload exactly once: never before the
\* delay has passed since the createGameObject call, never a second time,
\* and eventually, whatever frames run in between; for any other object it
\* is never emitted.
C6_PlayerCreatedOnce ==
    /\ [](\A i \in 1..Len(gameObjects) :
             /\ fired[i] <= 1
             /\ fired[i] = 1 =>
                   /\ created[i].isPlayerControlled
                   /\ now >= timerSetAt[i] + PlayerCreatedDelay
             /\ ~created[i].isPlayerControlled => fired[i] = 0)
    /\ \A i \in 1..MaxObjects :
          (Len(gameObjects) >= i /\ created[i].isPlayerControlled)
              ~> (Len(gameObjects) >= i /\ fired[i] = 1)

\* the player's event was just emitted, after frames ran between its
\* creation and the expiry, the last of which a throwing callback cut short
C6_Witness ==
    \E i \in 1..Len(gameObjects) :
        /\ created[i].isPlayerControlled
        /\ fired[i] = 1
        /\ lastTime > timerSetAt[i]
        /\ ~running
        /\ \E k \in Entries("emit", "playerCreated") : trace[k].obj1 = i

---------------------------------------------------------------------------
(* Notions of one update, for the claims about it *)

\* the time the next frame's update is called with
Elapsed == now - lastTime

\* the registry as the update of the next frame leaves it, before the
\* collision pass
Updated == update(Start(gameObjects), Elapsed).objs

\* a callback registered for hitBoundary throws
HitBoundaryThrows ==
    \E n \in DOMAIN Registered(subscribed, "hitBoundary") :
        Throws(Registered(subscribed, "hitBoundary")[n])

\* update gets as far as object i: no exception left it at an earlier one
UpdateReaches(i) ==
    ~(HitBoundaryThrows /\ \E k \in 1..(i - 1) : ~gameObjects[k].isStatic)

\* the registry when update comes to object i: the objects before it
\* already moved, the others not yet
WhenReached(i) ==
    [k \in DOMAIN gameObjects |->
        IF k < i THEN Updated[k] ELSE gameObjects[k]]

\* some other object intersects the strip one pixel high that starts one
\* pixel below the bottom edge of object i
Grounded(objs, i) ==
    LET strip == [x |-> objs[i].x, y |-> objs[i].y + objs[i].height + Scale,
                  width |-> objs[i].width, height |-> Scale]
    IN  \E k \in DOMAIN objs : k # i /\ Intersect(strip, objs[k])

\* the way made in d ms at v pixels per second, in units of 1/Scale pixel
\* (Scale is a multiple of 1000)
Travel(v, d) == v * d * (Scale \div 1000)

---------------------------------------------------------------------------
(* C11 *)

\* C11: in one update with elapsed time d, gravity is applied to an object
\* exactly when it is non-static, has requireGround and is not grounded; it
\* then adds exactly d to velocityY (on top of autoMove.y when autoMove is
\* set) and the position is integrated with the new velocityY.  An object
\* without autoMove that is static, has no requireGround or is grounded
\* keeps its velocityY.
C11_GravityAddsElapsed ==
    \A i \in 1..Len(gameObjects) :
        LET o == gameObjects[i]
            p == Updated[i]
            d == Elapsed
            base == IF o.autoMove # NoAutoMove THEN o.autoMove[2]
                    ELSE o.velocityY
            falls == /\ ~o.isStatic
                     /\ o.requireGround
                     /\ ~Grounded(WhenReached(i), i)
        IN  UpdateReaches(i) =>
              /\ falls => /\ p.velocityY = base + d
                          /\ p.y = o.y + Travel(base + d, d)
              /\ (~falls /\ ~o.isStatic) => p.velocityY = base
              /\ (~falls /\ o.autoMove = NoAutoMove) =>
                     p.velocityY = o.velocityY

\* a frame with 500 ms elapsed ran over an object that needs ground and
\* has none below it: its velocityY grew by 500 and it fell by 250 pixels
C11_Witness ==
    /\ lastTime = 500
    /\ \E j \in 1..Len(gameObjects) :
          /\ gameObjects[j].requireGround
          /\ gameObjects[j].autoMove = NoAutoMove
          /\ \E k \in Entries("emit", "hitBoundary") : trace[k].obj1 = j
          /\ gameObjects[j].velocityY = 500
          /\ gameObjects[j].y = created[j].y + Px(250)

---------------------------------------------------------------------------
(* C12 *)

\* the registry indices of the non-static objects, in increasing order
Movers ==
    SelectSeq([k \in 1..Len(gameObjects) |-> k],
              LAMBDA k : ~gameObjects[k].isStatic)

\* the entries of a trace that enter an emit of an event, in order
EmitsOf(tr, event) ==
    SelectSeq(tr, LAMBDA e : e.kind = "emit" /\ e.event = event)

---------------------------------------------------------------------------
(* Notions of one collision pass, read off the trace of a frame *)

\* the pair of registry indices a collision entry is about, smaller first
PairOf(e) == <<Min(e.obj1, e.obj2), Max(e.obj1, e.obj2)>>

\* lexicographic order of pairs
PairBefore(p, q) == p[1] < q[1] \/ (p[1] = q[1] /\ p[2] < q[2])

\* positions in a trace of the entries of the collision of a pair
GroupOf(tr, pair) ==
    {k \in DOMAIN tr : tr[k].event = "collision" /\ PairOf(tr[k]) = pair}

\* x, y and velocities of object o as the callee of entry e saw them
SeenIn(e, o) == IF e.obj1 = o THEN e.data.at[1] ELSE e.data.at[2]

\* x, y and velocities of object o just before position k of the trace of
\* a frame that started from the registry objs: as the last callee before
\* k that was handed o saw them, or as the frame found them
LastSeen(objs, tr, k, o) ==
    LET handed == {q \in 1..(k - 1) : tr[q].obj1 = o \/ tr[q].obj2 = o}
    IN  IF handed = {} THEN Seen(objs[o])
        ELSE SeenIn(tr[CHOOSE q \in handed : \A r \in handed : r <= q], o)

\* object o of the registry objs, with the x, y and velocities given
Placed(objs, o, seen) ==
    [objs[o] EXCEPT !.x = seen.x, !.y = seen.y,
                    !.velocityX = seen.velocityX,
                    !.velocityY = seen.velocityY]

\* what the collision of the pair (i, j) calls when nothing throws:
\* <<kind, callback, first argument, second argument>>, in this order
Notified(objs, i, j) ==
    (IF objs[i].onCollision # NoCallback
     THEN << <<"onCollision", objs[i].onCollision, i, j>> >> ELSE << >>)
    \o (IF objs[j].onCollision # NoCallback
        THEN << <<"onCollision", objs[j].onCollision, j, i>> >> ELSE << >>)
    \o << <<"emit", NoCallback, i, j>> >>
    \o [n \in 1..Len(Registered(subscribed, "collision")) |->
           <<"call", Registered(subscribed, "collision")[n], i, j>>]

\* the same, ended by the first callback that throws
NotifiedUntilThrow(objs, i, j) ==
    LET all == Notified(objs, i, j)
        throwing == {n \in DOMAIN all : Throws(all[n][2])}
    IN  IF throwing = {} THEN all
        ELSE SubSeq(all, 1, CHOOSE n \in throwing :
                                \A q \in throwing : n <= q)

---------------------------------------------------------------------------
(* C13 *)

---------------------------------------------------------------------------
(* C14 *)

\* C14: the update of every frame is called with deltaTime = the frame's
\* timestamp minus the timestamp of the frame before (0 for the first
\* frame), and moves the objects by that much time; after the frame
\* lastTime is the frame's timestamp; the timestamps never decreasing,
\* deltaTime is >= 0 and the deltaTimes of all frames so far sum to
\* lastTime.
C14_DeltaIsDifference ==
    [][ Frame =>
        \A deltaTime \in {ticks'.elapsed - ticks.elapsed} :
            /\ deltaTime = now - ticks.stamp
            /\ deltaTime >= 0
            /\ lastTime' = now
            /\ ticks'.elapsed = lastTime'
            /\ \A k \in DOMAIN trace' :
                  (trace'[k].kind = "emit" /\ trace'[k].event = "hitBoundary")
                  => LET pre == gameObjects[trace'[k].obj1]
                         at == trace'[k].data.at[1]
                     IN  /\ at.x = pre.x + Travel(at.velocityX, now - ticks.stamp)
                         /\ at.y = pre.y + Travel(at.velocityY, now - ticks.stamp)
      ]_vars

\* frames ran at 500 ms and at 1000 ms: an object that fell through both
\* has the velocityY and the place that two updates of 500 ms give, not
\* those of one update of 1000 ms
C14_Witness ==
    /\ lastTime = 1000
    /\ ticks = [stamp |-> 1000, elapsed |-> 1000]
    /\ \E i \in 1..Len(gameObjects) :
          /\ created[i].autoMove = NoAutoMove
          /\ gameObjects[i].velocityY = 1000
          /\ gameObjects[i].y = created[i].y + Px(250) + Px(500)
          /\ \E k \in Entries("emit", "hitBoundary") : trace[k].obj1 = i

---------------------------------------------------------------------------
(* C15 *)

\* C15: a subscriber that throws ends its emit and the handler around it:
\* no subscriber registered after it is called and nothing else is emitted
\* or called.  In a frame, every object is left as the last callee that was
\* handed it saw it (as the frame found it, if none was): nothing is
\* integrated or resolved after the throw.  When the throw came in update,
\* the objects after the one being updated are as the frame found them and
\* get no hitBoundary, and no collision is notified; the objects up to it
\* keep their updated state.
C15_ThrowEndsFrame ==
    [][ \A tr \in {trace'} :
        /\ \A k \in DOMAIN tr :
              (tr[k].kind = "call" /\ Throws(tr[k].cb))
                  => (k = Len(tr) /\ threw')
        /\ (Frame /\ threw' /\ tr # << >>) =>
            \A last \in {tr[Len(tr)]} :
              /\ Throws(last.cb)
              /\ \A o \in 1..Len(gameObjects) :
                    Seen(gameObjects'[o])
                        = LastSeen(gameObjects, tr, Len(tr) + 1, o)
              /\ last.event = "hitBoundary" =>
                    /\ Entries("emit", "collision")' = {}
                    /\ Entries("onCollision", "collision")' = {}
                    /\ \A o \in 1..Len(gameObjects) :
                          IF o > last.obj1
                          THEN /\ gameObjects'[o] = gameObjects[o]
                               /\ \A k \in DOMAIN tr : tr[k].obj1 # o
                          ELSE gameObjects[o].isStatic
                                   \/ \E k \in DOMAIN tr : tr[k].obj1 = o ]_vars

\* a frame with time elapsed updated the first object, called the first
\* hitBoundary subscriber and the second, which threw: the third was not
\* called, the first object stays moved, a moving object later in the
\* registry was not moved, and a pair that intersects was left alone
C15_Witness ==
    /\ threw
    /\ lastTime > 0
    /\ Len(trace) = 3
    /\ Len(Registered(subscribed, "hitBoundary")) = 3
    /\ trace[2].cb = "f1" /\ trace[3].cb = "boom"
    /\ trace[3].event = "hitBoundary" /\ trace[3].obj1 = 1
    /\ gameObjects[1].x # created[1].x
    /\ \E o \in 2..Len(gameObjects) :
          /\ ~gameObjects[o].isStatic
          /\ gameObjects[o].velocityX # 0
          /\ gameObjects[o].x = created[o].x
    /\ \E i, j \in 1..Len(gameObjects) :
          i < j /\ Intersect(gameObjects[i], gameObjects[j])

---------------------------------------------------------------------------
(* C16 *)

\* C16: for every two registered objects obj1, obj2, getCollisionData gives
\* overlapX = min(obj1.x + obj1.width - obj2.x, obj2.x + obj2.width - obj1.x)
\* and overlapY likewise on y and height; the direction is horizontal
\* exactly when overlapX < overlapY, "left" if obj1.x < obj2.x and "right"
\* if not; otherwise, the tie overlapX = overlapY included, it is vertical,
\* "top" if obj1.y < obj2.y and "bottom" if not.
C16_DirectionFromSmallerOverlap ==
    \A i, j \in 1..Len(gameObjects) :
        \A obj1 \in {gameObjects[i]}, obj2 \in {gameObjects[j]} :
        \A data \in {getCollisionData(obj1, obj2)} :
        LET right1 == obj1.x + obj1.width - obj2.x
            right2 == obj2.x + obj2.width - obj1.x
            below1 == obj1.y + obj1.height - obj2.y
            below2 == obj2.y + obj2.height - obj1.y
        IN  /\ data.overlapX <= right1 /\ data.overlapX <= right2
            /\ data.overlapX \in {right1, right2}
            /\ data.overlapY <= below1 /\ data.overlapY <= below2
            /\ data.overlapY \in {below1, below2}
            /\ data.direction \in {"left", "right"}
                    <=> data.overlapX < data.overlapY
            /\ data.direction \in {"top", "bottom"}
                    <=> data.overlapX >= data.overlapY
            /\ data.direction = "left" => obj1.x < obj2.x
            /\ data.direction = "right" => obj1.x >= obj2.x
            /\ data.direction = "top" => obj1.y < obj2.y
            /\ data.direction = "bottom" => obj1.y >= obj2.y

\* the last frame's pass met a pair whose two overlaps were equal, obj1
\* being the higher one and the one further left, reported "top" for it
\* and pushed obj2 down
C16_Witness ==
    /\ Len(gameObjects) = 2
    /\ gameObjects[1].y < gameObjects[2].y
    /\ gameObjects[1].x < gameObjects[2].x
    /\ Reported(1, 2, "top")
    /\ \E k \in Entries("emit", "collision") :
          /\ trace[k].data.overlapX = trace[k].data.overlapY
          /\ trace[k].data.overlapX > 0
    /\ gameObjects[2].y > created[2].y
    /\ gameObjects[2].x = created[2].x

---------------------------------------------------------------------------
(* C17 *)

\* C17: for a non-static object with autoMove, the update of every frame
\* overwrites the velocity the frame found (whatever an earlier collision
\* zeroed or gravity added) with autoMove before it integrates: when
\* hitBoundary is emitted for the object its velocityX is autoMove.x, its x
\* has advanced by autoMove.x * deltaTime / 1000, its velocityY is autoMove.y
\* or autoMove.y plus the gravity of this one frame, and its y has advanced
\* by that velocityY.
C17_AutoMoveOverwrites ==
    [][ Frame =>
        \A k \in DOMAIN trace' :
            \A e \in {trace'[k]} :
            (e.kind = "emit" /\ e.event = "hitBoundary"
                 /\ gameObjects[e.obj1].autoMove # NoAutoMove) =>
            LET pre == gameObjects[e.obj1]
                at == e.data.at[1]
            IN  /\ at.velocityX = pre.autoMove[1]
                /\ at.x = pre.x + Travel(pre.autoMove[1], Elapsed)
                /\ at.velocityY \in {pre.autoMove[2],
                                      pre.autoMove[2] + Elapsed}
                /\ at.y = pre.y + Travel(at.velocityY, Elapsed) ]_vars

\* frames ran at 500 ms and at 1000 ms over a walker that needs ground and
\* has none: each gave it autoMove.y plus 500, and after the second its
\* velocityY is that again, not what two frames of gravity sum to
C17_Witness ==
    /\ lastTime = 1000
    /\ \E i \in 1..Len(gameObjects) :
          /\ created[i].autoMove # NoAutoMove
          /\ \E k \in Entries("emit", "hitBoundary") : trace[k].obj1 = i
          /\ gameObjects[i].velocityY = created[i].autoMove[2] + 500
          /\ gameObjects[i].x = created[i].x + Travel(created[i].autoMove[1], 1000)
          /\ gameObjects[i].y
                 = created[i].y + 2 * Travel(created[i].autoMove[2] + 500, 500)

---------------------------------------------------------------------------
(* C18 *)

\* the position in the trace of a frame where the turn of the pair p ends:
\* that of the first entry of a pair after p, or the end of the trace
TurnEnd(tr, p) ==
    LET later == {k \in DOMAIN tr : /\ tr[k].event = "collision"
                                    /\ PairBefore(p, PairOf(tr[k]))}
    IN  IF later = {} THEN Len(tr) + 1
        ELSE CHOOSE k \in later : \A q \in later : k <= q

\* C18: the collision pass of a frame is one pass: every pair is resolved
\* and notified at most once in a frame, and the pass does not come back to
\* a pair once its turn is over.  So a pair that was apart when its turn
\* ended and intersects when the frame ends was pushed together by the
\* resolution of a later pair, and stays so: that no pair intersects after
\* checkCollisions is not an invariant (the witness reaches such a state).
C18_SinglePass ==
    [][ Frame =>
        \A tr \in {trace'} :
        \A i, j \in 1..Len(gameObjects) :
            i < j =>
            \A end \in {TurnEnd(tr, <<i, j>>)} :
            LET a == Placed(gameObjects, i, LastSeen(gameObjects, tr, end, i))
                b == Placed(gameObjects, j, LastSeen(gameObjects, tr, end, j))
            IN  /\ Cardinality(CollisionEmits(tr, i, j)) <= 1
                /\ Cardinality(OnCollisionCalls(tr, i, j)) <= 1
                /\ Cardinality(OnCollisionCalls(tr, j, i)) <= 1
                /\ (Intersect(gameObjects'[i], gameObjects'[j])
                        /\ ~Intersect(a, b)) =>
                       \E k \in end..Len(tr) :
                           /\ tr[k].event = "collision"
                           /\ {tr[k].obj1, tr[k].obj2} \cap {i, j} # {}
                           /\ {tr[k].obj1, tr[k].obj2} # {i, j} ]_vars

\* a frame that ran to its end resolved the pair (1, 2), which was apart
\* after it, and later the pair (2, 3), which pushed object 2 back into
\* object 1: the frame ended with 1 and 2 intersecting, and nothing was
\* notified for the pair a second time
C18_Witness ==
    /\ Len(gameObjects) = 3
    /\ ~threw
    /\ ~gameObjects[2].isStatic
    /\ Cardinality(CollisionEmits(trace, 1, 2)) = 1
    /\ \E k \in CollisionEmits(trace, 1, 2) :
          /\ ~Intersect(Placed(gameObjects, 1, trace[k].data.at[1]),
                        Placed(gameObjects, 2, trace[k].data.at[2]))
          /\ \E q \in CollisionEmits(trace, 2, 3) : k < q
    /\ Intersect(gameObjects[1], gameObjects[2])

---------------------------------------------------------------------------
(* C19 *)

\* object i rests on object g: i is non-static, needs ground, has no
\* autoMove and no velocity; g is static and more than one pixel high; the
\* bottom edge of i is exactly on the top edge of g and their horizontal
\* ranges overlap with positive width
Resting(objs, i, g) ==
    /\ ~objs[i].isStatic
    /\ objs[i].requireGround
    /\ objs[i].autoMove = NoAutoMove
    /\ objs[i].velocityX = 0 /\ objs[i].velocityY = 0
    /\ objs[g].isStatic
    /\ objs[g].height > 1 * Scale
    /\ objs[i].y + objs[i].height = objs[g].y
    /\ CommonX(objs[i], objs[g]) > 0

\* C19: an object resting on a static one is reported grounded by
\* isOnGround, and a frame with any deltaTime >= 0 in which no third object
\* collides with it leaves its position and velocity as they were and
\* notifies no collision of the two; so it still rests after the frame,
\* and through any number of frames.
C19_RestingIsStable ==
    [][ Frame =>
        \A i, g \in 1..Len(gameObjects) :
            Resting(gameObjects, i, g) =>
                /\ Elapsed >= 0
                /\ isOnGround(gameObjects, i)
                /\ (\A k \in DOMAIN trace' :
                        (trace'[k].event = "collision"
                             /\ i \in {trace'[k].obj1, trace'[k].obj2})
                            => g \in {trace'[k].obj1, trace'[k].obj2})
                   => /\ SamePlace(gameObjects'[i], gameObjects[i])
                      /\ ~PairInTrace(i, g)'
                      /\ Resting(gameObjects', i, g) ]_vars

\* the box that stood on the floor at time 0 has been through a frame
\* with time elapsed, which emitted hitBoundary for it to a listener, and
\* rests where it was created, with no velocity
C19_Witness ==
    /\ lastTime > 0
    /\ Len(gameObjects) >= 2
    /\ gameObjects[1].id = "floor" /\ gameObjects[2].id = "rest"
    /\ Resting(gameObjects, 2, 1)
    /\ SamePlace(gameObjects[2], created[2])
    /\ \E k \in Entries("call", "hitBoundary") : trace[k].obj1 = 2
    /\ ~PairInTrace(2, 1)
    /\ ~threw

---------------------------------------------------------------------------
(* C20 *)

\* C20: every collision data handed to an onCollision callback, to the
\* collision event or to a listener of it has overlapX > 0 and
\* overlapY > 0.
C20_OverlapsPositive ==
    \A k \in DOMAIN trace :
        trace[k].event = "collision" =>
            /\ trace[k].data.overlapX > 0
            /\ trace[k].data.overlapY > 0

\* the last frame handed collision data to an onCollision callback, to
\* the event and to a listener, for a pair met after an earlier pair had
\* been resolved, while another pair of the registry only touches or is
\* apart and was handed nothing
C20_Witness ==
    /\ Len(gameObjects) = 3
    /\ Entries("onCollision", "collision") # {}
    /\ Entries("call", "collision") # {}
    /\ Cardinality(Entries("emit", "collision")) = 2
    /\ \E k \in Entries("emit", "collision") :
          trace[k].data.overlapX # trace[k].data.overlapY
    /\ \E i, j \in 1..3 :
          /\ i < j
          /\ ~Intersect(created[i], created[j])
          /\ ~PairInTrace(i, j)

===========================================================================
